---- MODULE Spec2Model ----
(***************************************************************************)
(* A model of the document pipeline of Get-Converted-Exams:                *)
(*   - the Python classifier hosted in the Pyodide worker                  *)
(*     (src/src/workers/pyodideWorker.ts),                                 *)
(*   - the DocumentAnalyzerService facade in front of that worker          *)
(*     (src/src/services/documentAnalyzer.ts),                             *)
(*   - the RustFormatterService (src/Dockerfile, lines 103-220).           *)
(* Strings that the code inspects character by character (file names, exam *)
(* codes, generated names) are sequences of one-character strings.         *)
(* Document type tags are TLA+ strings.  A character outside ASCII is      *)
(* written by its code point ("U+0906").                                   *)
(***************************************************************************)
EXTENDS Integers, Sequences, FiniteSets, TLC

VARIABLES
    cName,      \* classifier: the file name handed to the classification step
    cPc,        \* classifier: "input" before the step, "done" after it
    cDirect,    \* classifier: analyze_document_type(cName), once done
    cWorker     \* classifier: outcome of the worker's runPython step for cName

classifyVars == <<cName, cPc, cDirect, cWorker>>

VARIABLES
    formatter,       \* RustFormatterService: this.formatter (and wasmModule) is set
    engineConfig,    \* engine: the argument of the last set_config call, "none" before
    engineLog,       \* the formatDocuments calls and the engine's calls and returns, in order
    records,         \* the ProcessedFile array the caller holds
    fPc,             \* formatDocuments: where the running call stands
    fFiles,          \* formatDocuments: its argument files
    fConfig,         \* formatDocuments: its argument examConfig
    fOnProgress,     \* formatDocuments: whether onProgress was supplied
    loopIndex,       \* formatDocuments: the loop variable i
    formattedFiles,  \* formatDocuments: the array it builds
    progressCalls,   \* the arguments of the onProgress calls of the running call
    outcomes,        \* per file of the running call: its conversion "succeeded" or "failed"
    fCalls           \* number of formatDocuments calls made so far

formatVars == <<formatter, engineConfig, engineLog, records, fPc, fFiles, fConfig,
                fOnProgress, loopIndex, formattedFiles, progressCalls, outcomes, fCalls>>

VARIABLES
    worker,          \* DocumentAnalyzerService: this.worker, 0 for null, else the worker's number
    workersCreated,  \* number of Worker objects constructed so far
    handler,         \* the call whose onmessage / onerror closures the worker object holds, 0 for none
    nCalls,          \* number of analyzeDocuments calls made so far
    callFiles,       \* per call: its argument files
    promise,         \* per call: the promise it returned
    timer,           \* per call: its setTimeout timer
    script,          \* the worker's script: "none", "loading", "running", "failed"
    errorEvent,      \* an error event of the worker waits to be dispatched
    inbox,           \* worker: the 'analyze' messages posted to it and not yet received
    wpc,             \* worker: per request, where its onmessage invocation stands
    pyodide,         \* worker: the global `pyodide`, 0 for null, else the interpreter's number
    instances,       \* worker: per interpreter, what has been loaded into it
    outbox,          \* the messages the worker posted, not yet dispatched on the main thread
    posted,          \* log: the postMessage calls of the service
    answered,        \* log: per request, how its own response reached the main thread
    handled,         \* log: per call, the message events its onmessage closure processed
    terminated,      \* log: the workers that worker.terminate() was called on
    settledBy,       \* log: per call, the request whose response settled its promise, 0 for none
    classified       \* log: per request, the state of the interpreter its classification calls ran on

channelVars == <<worker, workersCreated, handler, nCalls, callFiles, promise, timer,
                 script, errorEvent, inbox, wpc, pyodide, instances, outbox, posted,
                 answered, handled, terminated, settledBy, classified>>

VARIABLES
    rType,      \* naming: the detected_type argument of generate_new_filename
    rCode,      \* naming: the exam code
    rIndex,     \* naming: the index argument
    rFiles,     \* naming: the files of an 'analyze' request
    rPc,        \* naming: "input", "named" after the call, "done" after the loop
    rName,      \* naming: generate_new_filename(rType, rCode, rIndex), once named
    rData       \* naming: outcome of the worker's analyze loop over rFiles, once done

renameVars == <<rType, rCode, rIndex, rFiles, rPc, rName, rData>>

VARIABLES
    mType,      \* mime: the documentType argument of getOutputMimeType
    mConfig,    \* mime: the examConfig argument
    mPc,        \* mime: "input" before the call, "done" after it
    mMime       \* mime: getOutputMimeType(mType, mConfig), once done

mimeVars == <<mType, mConfig, mPc, mMime>>

vars == <<classifyVars, formatVars, channelVars, renameVars, mimeVars>>

\* What the steps of one component leave alone: the other components.
outsideClassify == <<formatVars, channelVars, renameVars, mimeVars>>
outsideFormat == <<classifyVars, channelVars, renameVars, mimeVars>>
outsideChannel == <<classifyVars, formatVars, renameVars, mimeVars>>
outsideRename == <<classifyVars, formatVars, channelVars, mimeVars>>
outsideMime == <<classifyVars, formatVars, channelVars, renameVars>>

(***************************************************************************)
(* Bounds of the model.                                                    *)
(***************************************************************************)
\* Largest number of vocabulary tokens concatenated into a file name.
MaxTokens == 2

\* Largest number of files in a batch handed to formatDocuments.
MaxFiles == 3

\* Largest index handed to generate_new_filename, and largest number of files
\* of a request of the naming specification.
MaxIndex == 10
MaxRequestFiles == 2

\* Largest number of analyzeDocuments calls and of Worker objects in a run.
MaxCalls == 2
MaxWorkers == 2

\* Largest number of formatDocuments calls in a run, and the largest batch
\* that is handed to formatDocuments again after a first call.
MaxFormatCalls == 2
MaxReformatFiles == 1

(***************************************************************************)
(* String helpers (Python str / re, JavaScript String).                    *)
(***************************************************************************)
\* str.lower() on the characters of the modelled alphabet.
LowerChar(c) ==
    CASE c = "P" -> "p"
      [] c = "I" -> "i"
      [] c = "C" -> "c"
      [] OTHER -> c

Lower(s) == [k \in 1..Len(s) |-> LowerChar(s[k])]

\* lit occurs in s starting exactly at position p.
IsAt(s, p, lit) ==
    /\ p >= 1
    /\ p + Len(lit) - 1 <= Len(s)
    /\ \A k \in 1..Len(lit) : s[p + k - 1] = lit[k]

\* Python's `lit in s`.
Contains(s, lit) == \E p \in 1..(Len(s) - Len(lit) + 1) : IsAt(s, p, lit)

IsDigit(c) == c \in {"0", "1", "2", "3", "4", "5", "6", "7", "8", "9"}

IsSpace(c) == c = " "

\* \d{4} at position p of s.
FourDigitsAt(s, p) ==
    /\ p >= 1
    /\ p + 3 <= Len(s)
    /\ \A k \in 0..3 : IsDigit(s[p + k])

\* The positions at which a match of \s* starting at p may end (exclusive).
AfterSpaces(s, p) ==
    {q \in p..(Len(s) + 1) : \A k \in p..(q - 1) : IsSpace(s[k])}

\* re.search(r'\d{4}\s*\d{4}\s*\d{4}', s)
MatchesDigitGroups(s) ==
    \E p \in 1..Len(s) :
        /\ FourDigitsAt(s, p)
        /\ \E q \in AfterSpaces(s, p + 4) :
              /\ FourDigitsAt(s, q)
              /\ \E r \in AfterSpaces(s, q + 4) : FourDigitsAt(s, r)

\* An alternative of a pattern is a sequence of literals joined by `.*`
\* (one literal: a plain substring), or the digit-group expression.
\* The literals must occur in order, without overlap, from position `from`.
RECURSIVE MatchesFrom(_, _, _)
MatchesFrom(s, lits, from) ==
    IF lits = <<>> THEN TRUE
    ELSE \E p \in from..(Len(s) - Len(Head(lits)) + 1) :
            /\ IsAt(s, p, Head(lits))
            /\ MatchesFrom(s, Tail(lits), p + Len(Head(lits)))

\* The one expression of the table that is not literals joined by `.*`.
DigitGroups == <<"\\d{4}\\s*\\d{4}\\s*\\d{4}">>

MatchesAlternative(s, alt) ==
    IF Head(alt) = DigitGroups THEN MatchesDigitGroups(s)
    ELSE MatchesFrom(s, alt, 1)

\* re.search(pattern, s, re.IGNORECASE) for a pattern given as the set of
\* its `|` alternatives; s is already lower case and so are the patterns.
re_search(pattern, s) == \E alt \in pattern : MatchesAlternative(s, alt)

(***************************************************************************)
(* The classifier: DocumentAnalyzer of the worker's Python source.         *)
(***************************************************************************)
\* self.document_patterns: a dict, iterated in insertion order.
document_patterns ==
    << [type |-> "aadhaar", patterns |-> <<
          { <<<<"a","a","d","h","a","a","r">>>>, <<<<"U+0906","U+0927","U+093E","U+0930">>>> },
          { <<DigitGroups>> },
          { <<<<"g","o","v","e","r","n","m","e","n","t"," ","o","f"," ","i","n","d","i","a">>>> },
          { <<<<"u","n","i","q","u","e"," ","i","d","e","n","t","i","f","i","c","a","t","i","o","n"," ","a","u","t","h","o","r","i","t","y">>>> } >>],
       [type |-> "photo", patterns |-> <<
          { <<<<"p","h","o","t","o","g","r","a","p","h">>>>, <<<<"p","h","o","t","o">>>> },
          { << <<"p","a","s","s","p","o","r","t">>, <<"s","i","z","e">> >> },
          { << <<"r","e","c","e","n","t">>, <<"p","h","o","t","o">> >> } >>],
       [type |-> "signature", patterns |-> <<
          { <<<<"s","i","g","n","a","t","u","r","e">>>>, <<<<"s","i","g","n">>>> },
          { << <<"s","p","e","c","i","m","e","n">>, <<"s","i","g","n","a","t","u","r","e">> >> },
          { << <<"t","h","u","m","b">>, <<"i","m","p","r","e","s","s","i","o","n">> >> } >>],
       [type |-> "marksheet", patterns |-> <<
          { << <<"m","a","r","k">>, <<"s","h","e","e","t">> >>, <<<<"m","a","r","k","s","h","e","e","t">>>> },
          { << <<"g","r","a","d","e">>, <<"s","h","e","e","t">> >>, <<<<"g","r","a","d","e","s","h","e","e","t">>>> },
          { <<<<"t","r","a","n","s","c","r","i","p","t">>>> },
          { << <<"e","x","a","m","i","n","a","t","i","o","n">>, <<"r","e","s","u","l","t">> >> },
          { << <<"b","o","a","r","d">>, <<"e","x","a","m","i","n","a","t","i","o","n">> >> } >>],
       [type |-> "certificate", patterns |-> <<
          { <<<<"c","e","r","t","i","f","i","c","a","t","e">>>> },
          { <<<<"d","i","p","l","o","m","a">>>> },
          { <<<<"d","e","g","r","e","e">>>> },
          { <<<<"g","r","a","d","u","a","t","i","o","n">>>> },
          { << <<"p","o","s","t">>, <<"g","r","a","d","u","a","t","i","o","n">> >> } >>],
       [type |-> "caste_certificate", patterns |-> <<
          { << <<"c","a","s","t","e">>, <<"c","e","r","t","i","f","i","c","a","t","e">> >> },
          { << <<"c","o","m","m","u","n","i","t","y">>, <<"c","e","r","t","i","f","i","c","a","t","e">> >> },
          { << <<"s","c">>, <<"c","e","r","t","i","f","i","c","a","t","e">> >>,
            << <<"s","t">>, <<"c","e","r","t","i","f","i","c","a","t","e">> >>,
            << <<"o","b","c">>, <<"c","e","r","t","i","f","i","c","a","t","e">> >> },
          { << <<"b","a","c","k","w","a","r","d">>, <<"c","l","a","s","s">> >> } >>],
       [type |-> "income_certificate", patterns |-> <<
          { << <<"i","n","c","o","m","e">>, <<"c","e","r","t","i","f","i","c","a","t","e">> >> },
          { << <<"a","n","n","u","a","l">>, <<"i","n","c","o","m","e">> >> },
          { << <<"s","a","l","a","r","y">>, <<"c","e","r","t","i","f","i","c","a","t","e">> >> } >>] >>

\* The keyword groups of the if/elif chain after the pattern loop, in order.
fallback_words ==
    << [type |-> "photo", words |-> { <<"p","h","o","t","o">>, <<"p","i","c">>,
                                      <<"i","m","a","g","e">>, <<"p","a","s","s","p","o","r","t">> }],
       [type |-> "signature", words |-> { <<"s","i","g","n">>, <<"s","i","g","n","a","t","u","r","e">> }],
       [type |-> "marksheet", words |-> { <<"m","a","r","k">>, <<"g","r","a","d","e">>,
                                          <<"r","e","s","u","l","t">> }],
       [type |-> "certificate", words |-> { <<"c","e","r","t">>,
                                            <<"c","e","r","t","i","f","i","c","a","t","e">> }],
       [type |-> "aadhaar", words |-> { <<"a","a","d","h","a","a","r">>, <<"a","a","d","h","a","r">>,
                                        <<"u","i","d">> }] >>

\* `for pattern in patterns: if re.search(...)`: some pattern of the rule matches.
RuleMatches(rule, s) ==
    \E k \in 1..Len(rule.patterns) : re_search(rule.patterns[k], s)

\* A variant of the pattern loop that keeps scanning after a match and
\* returns the type of the last rule that matches.
RECURSIVE ScanRules_LastMatch(_, _)
ScanRules_LastMatch(s, r) ==
    IF r > Len(document_patterns) THEN ""
    ELSE LET later == ScanRules_LastMatch(s, r + 1)
         IN  IF later # "" THEN later
             ELSE IF RuleMatches(document_patterns[r], s) THEN document_patterns[r].type
             ELSE ""

\* The pattern loop from rule r on: the type of the first rule that matches,
\* "" when the loop falls through.
RECURSIVE ScanRules(_, _)
ScanRules(s, r) ==
    IF r > Len(document_patterns) THEN ""
    ELSE IF RuleMatches(document_patterns[r], s) THEN document_patterns[r].type
    ELSE ScanRules(s, r + 1)

\* The if/elif chain from group g on, ending in the default type.
RECURSIVE ScanFallback(_, _)
ScanFallback(s, g) ==
    IF g > Len(fallback_words) THEN "document"
    ELSE IF \E w \in fallback_words[g].words : Contains(s, w) THEN fallback_words[g].type
    ELSE ScanFallback(s, g + 1)

analyze_document_type(filename) ==
    LET filename_lower == Lower(filename)
        byPattern == ScanRules(filename_lower, 1)
    IN  IF byPattern # "" THEN byPattern ELSE ScanFallback(filename_lower, 1)

(***************************************************************************)
(* The worker's classification step: the file name is interpolated into    *)
(* Python source, analyzer.analyze_document_type("${file.name}"), and the  *)
(* source is handed to pyodide.runPython.  What Python reads as the string *)
(* argument is decided by its string-literal syntax, applied to the name   *)
(* followed by the template's closing quote and parenthesis.               *)
(* Modelled: single- and triple-quoted literals, the backslash escapes,    *)
(* adjacent literals and white space between them.  String prefixes (r"",  *)
(* b"", f"") and operators between literals are not in the modelled        *)
(* alphabet.                                                               *)
(***************************************************************************)
PySyntaxError == [ok |-> FALSE, value |-> <<>>]

IsHexDigit(c) == IsDigit(c) \/ c \in {"a", "b", "c", "d", "e", "f", "A", "B", "C", "D", "E", "F"}

IsOctDigit(c) == c \in {"0", "1", "2", "3", "4", "5", "6", "7"}

\* The number of hex digits \x, \u and \U require.
HexLength(d) == CASE d = "x" -> 2 [] d = "u" -> 4 [] d = "U" -> 8

\* The number of octal digits (at most 3) of an octal escape whose first
\* digit is at p.
OctLength(t, p) ==
    IF p + 1 <= Len(t) /\ IsOctDigit(t[p + 1])
    THEN IF p + 2 <= Len(t) /\ IsOctDigit(t[p + 2]) THEN 3 ELSE 2
    ELSE 1

\* The backslash at position p of t, inside a literal: the characters it
\* stands for and the position after the escape, or a syntax error.
PyEscape(t, p) ==
    IF p = Len(t) THEN [ok |-> FALSE, add |-> <<>>, next |-> p]
    ELSE LET d == t[p + 1] IN
         IF d \in {"\"", "\\", "'"} THEN [ok |-> TRUE, add |-> <<d>>, next |-> p + 2]
         ELSE IF d \in {"a", "b", "f", "n", "r", "t", "v"}
              THEN [ok |-> TRUE, add |-> <<"control">>, next |-> p + 2]
         ELSE IF d \in {"x", "u", "U"}
              THEN [ok |-> /\ p + 1 + HexLength(d) <= Len(t)
                           /\ \A k \in 1..HexLength(d) : IsHexDigit(t[p + 1 + k]),
                    add |-> <<"codepoint">>, next |-> p + 2 + HexLength(d)]
         ELSE IF d = "N" THEN [ok |-> FALSE, add |-> <<>>, next |-> p]
         ELSE IF IsOctDigit(d)
              THEN [ok |-> TRUE, add |-> <<"codepoint">>, next |-> p + 1 + OctLength(t, p + 1)]
         ELSE [ok |-> TRUE, add |-> <<"\\", d>>, next |-> p + 2]   \* unknown escape: kept

IsQuoteAt(t, p) == p <= Len(t) /\ t[p] = "\""

\* PyBody: inside a literal (triple: opened by three quotes) at position p
\* of the source text t, acc the value of the argument so far.
\* PyAfter: after a closed literal; only `)` at the end of the text, another
\* literal, or white space before either, can follow.
RECURSIVE PyBody(_, _, _, _)
RECURSIVE PyAfter(_, _, _)
PyBody(t, p, triple, acc) ==
    IF p > Len(t) THEN PySyntaxError          \* unterminated string literal
    ELSE IF triple /\ IsQuoteAt(t, p) /\ IsQuoteAt(t, p + 1) /\ IsQuoteAt(t, p + 2)
         THEN PyAfter(t, p + 3, acc)
    ELSE IF ~triple /\ IsQuoteAt(t, p) THEN PyAfter(t, p + 1, acc)
    ELSE IF t[p] = "\\"
         THEN LET e == PyEscape(t, p)
              IN  IF e.ok THEN PyBody(t, e.next, triple, acc \o e.add) ELSE PySyntaxError
    ELSE PyBody(t, p + 1, triple, Append(acc, t[p]))

PyAfter(t, p, acc) ==
    IF p > Len(t) THEN PySyntaxError
    ELSE IF t[p] = ")" THEN (IF p = Len(t) THEN [ok |-> TRUE, value |-> acc] ELSE PySyntaxError)
    ELSE IF IsSpace(t[p]) THEN PyAfter(t, p + 1, acc)
    ELSE IF IsQuoteAt(t, p)
         THEN IF IsQuoteAt(t, p + 1) /\ IsQuoteAt(t, p + 2)
              THEN PyBody(t, p + 3, TRUE, acc)
              ELSE PyBody(t, p + 1, FALSE, acc)
    ELSE PySyntaxError

\* The value Python gives the string argument of f("${text}"), or the
\* syntax error of the interpolated source.
PyStringArgument(text) == PyAfter(<<"\"">> \o text \o <<"\"", ")">>, 1, <<>>)

\* pyodide.runPython(`analyzer.analyze_document_type("${file.name}")`):
\* the detected type, or the exception runPython throws.
RunAnalyzeDocumentType(name) ==
    LET arg == PyStringArgument(name)
    IN  IF arg.ok
        THEN [status |-> "ok", detectedType |-> analyze_document_type(arg.value)]
        ELSE [status |-> "error", detectedType |-> ""]

(***************************************************************************)
(* The rest of the worker's analyze loop: the generated name and the       *)
(* result entry of a file (pyodideWorker.ts, 104-121 and 131-155).         *)
(***************************************************************************)
\* The decimal digits of a positive number, as Python's f'{n}' writes them.
DigitChars == <<"0", "1", "2", "3", "4", "5", "6", "7", "8", "9">>

RECURSIVE Decimal(_)
Decimal(n) ==
    IF n < 10 THEN <<DigitChars[n + 1]>>
    ELSE Append(Decimal(n \div 10), DigitChars[(n % 10) + 1])

\* type_mapping without the exam code prefix: the text that follows it.
type_mapping(detected_type) ==
    CASE detected_type = "photo" -> <<"_","p","h","o","t","o","g","r","a","p","h">>
      [] detected_type = "signature" -> <<"_","s","i","g","n","a","t","u","r","e">>
      [] detected_type = "aadhaar" -> <<"_","a","a","d","h","a","a","r","_","c","a","r","d">>
      [] detected_type = "marksheet" -> <<"_","m","a","r","k","s","h","e","e","t">>
      [] detected_type = "certificate" -> <<"_","c","e","r","t","i","f","i","c","a","t","e">>
      [] detected_type = "caste_certificate" ->
            <<"_","c","a","s","t","e","_","c","e","r","t","i","f","i","c","a","t","e">>
      [] detected_type = "income_certificate" ->
            <<"_","i","n","c","o","m","e","_","c","e","r","t","i","f","i","c","a","t","e">>
      [] detected_type = "document" -> <<"_","d","o","c","u","m","e","n","t">>
      [] OTHER -> <<"_","d","o","c","u","m","e","n","t">>

\* generate_new_filename numbering from the index itself.
generate_new_filename_ZeroBased(detected_type, exam_code, index) ==
    LET base_name == exam_code \o type_mapping(detected_type)
    IN  IF index > 0 THEN base_name \o <<"_">> \o Decimal(index) ELSE base_name

generate_new_filename(detected_type, exam_code, index) ==
    LET base_name == exam_code \o type_mapping(detected_type)
    IN  IF index > 0 THEN base_name \o <<"_">> \o Decimal(index + 1) ELSE base_name

\* pyodide.runPython(`analyzer.generate_new_filename("${detectedType}",
\* "${examCode}", ${i})`): the name, or the exception runPython throws.
\* A detected type is one of the tags of the table and is read as written.
RunGenerateNewFilename(detectedType, examCode, i) ==
    LET arg == PyStringArgument(examCode)
    IN  IF arg.ok
        THEN [status |-> "ok", newName |-> generate_new_filename(detectedType, arg.value, i)]
        ELSE [status |-> "error", newName |-> <<>>]

\* file.name.split('.').pop(): what follows the last dot, the whole name
\* when it has none.
RECURSIVE LastSegment(_)
LastSegment(name) ==
    IF name = <<>> THEN <<>>
    ELSE IF name[Len(name)] = "." THEN <<>>
    ELSE LET front == SubSeq(name, 1, Len(name) - 1)
         IN  IF \E k \in 1..Len(front) : front[k] = "."
             THEN Append(LastSegment(front), name[Len(name)])
             ELSE name

\* The analyze loop from index i (0-based) on, results the entries pushed so
\* far: the data of the 'result' message, or the first exception.
RECURSIVE AnalyzeLoop(_, _, _, _)
AnalyzeLoop(files, examCode, i, results) ==
    IF i >= Len(files) THEN [status |-> "ok", data |-> results]
    ELSE LET file == files[i + 1]
             detected == RunAnalyzeDocumentType(file.name)
             named == RunGenerateNewFilename(detected.detectedType, examCode, i)
         IN  IF detected.status # "ok" \/ named.status # "ok"
             THEN [status |-> "error", data |-> <<>>]
             ELSE AnalyzeLoop(files, examCode, i + 1,
                      Append(results,
                             [id |-> file.id,
                              originalName |-> file.name,
                              detectedType |-> detected.detectedType,
                              newName |-> named.newName \o <<".">> \o LastSegment(file.name)]))

(***************************************************************************)
(* File names of the classifier's specification: every concatenation of at *)
(* most MaxTokens tokens of the vocabulary, the empty name included.       *)
(***************************************************************************)
Vocabulary ==
    { <<"a","a","d","h","a","a","r">>, <<"p","h","o","t","o">>, <<"s","i","g","n">>,
      <<"m","a","r","k","s","h","e","e","t">>, <<"m","a","r","k">>,
      <<"c","e","r","t","i","f","i","c","a","t","e">>, <<"c","e","r","t">>,
      <<"c","a","s","t","e">>, <<"i","n","c","o","m","e">>, <<"P","I","C">>,
      <<"u","i","d">>, <<"z">>, <<"9","8","7","6","5","4">>, <<"\"">>, <<"\\">> }

RECURSIVE NamesOfTokens(_)
NamesOfTokens(n) ==
    IF n = 0 THEN { <<>> }
    ELSE LET shorter == NamesOfTokens(n - 1)
         IN  shorter \cup { s \o t : s \in shorter, t \in Vocabulary }

FileNames == NamesOfTokens(MaxTokens)

NoResult == [status |-> "none", detectedType |-> ""]

InitClassify ==
    /\ cName \in FileNames
    /\ cPc = "input"
    /\ cDirect = ""
    /\ cWorker = NoResult

\* analyzer.analyze_document_type(cName), called as a Python function.
Classify ==
    /\ cPc = "input"
    /\ cDirect' = analyze_document_type(cName)
    /\ cPc' = "classified"
    /\ UNCHANGED <<cName, cWorker>>
    /\ UNCHANGED outsideClassify

\* The worker's step for a file of that name (pyodideWorker.ts, 135-137).
WorkerClassify ==
    /\ cPc = "classified"
    /\ cWorker' = RunAnalyzeDocumentType(cName)
    /\ cPc' = "done"
    /\ UNCHANGED <<cName, cDirect>>
    /\ UNCHANGED outsideClassify

(***************************************************************************)
(* Naming: generate_new_filename called as a Python function, and the      *)
(* worker's analyze loop, which passes the loop variable i as the index.   *)
(***************************************************************************)
\* The detected_type arguments: the keys of type_mapping and two others.
RenameTypes ==
    {"photo", "signature", "aadhaar", "marksheet", "certificate", "caste_certificate",
     "income_certificate", "document", "unknown_type", "passport"}

ExamCodes == { <<"E","X","0","1">>, <<"U","P","S","C">> }

\* The file names of a request.
RequestNames ==
    { <<"p","h","o","t","o",".","j","p","g">>,
      <<"s","i","g","n",".","p","n","g">>,
      <<"n","o","t","e","s",".","t","x","t">> }

\* The requests of at most n files with those names; ids are the positions.
RequestsUpTo(n) ==
    UNION { { [k \in 1..m |-> [id |-> k, name |-> names[k]]] :
                names \in [1..m -> RequestNames] } : m \in 1..n }

NoData == [status |-> "none", data |-> <<>>]

InitRename ==
    /\ rType \in RenameTypes
    /\ rCode \in ExamCodes
    /\ rIndex \in 0..MaxIndex
    /\ rFiles \in RequestsUpTo(MaxRequestFiles)
    /\ rPc = "input"
    /\ rName = <<>>
    /\ rData = NoData

\* analyzer.generate_new_filename(rType, rCode, rIndex), called as a Python
\* function.
Rename ==
    /\ rPc = "input"
    /\ rName' = generate_new_filename(rType, rCode, rIndex)
    /\ rPc' = "named"
    /\ UNCHANGED <<rType, rCode, rIndex, rFiles, rData>>
    /\ UNCHANGED outsideRename

\* The worker's analyze loop over rFiles (pyodideWorker.ts, 131-150).
RenameRequest ==
    /\ rPc = "named"
    /\ rData' = AnalyzeLoop(rFiles, rCode, 0, <<>>)
    /\ rPc' = "done"
    /\ UNCHANGED <<rType, rCode, rIndex, rFiles, rName>>
    /\ UNCHANGED outsideRename

RenameOff ==
    /\ rType = ""
    /\ rCode = <<>>
    /\ rIndex = 0
    /\ rFiles = <<>>
    /\ rPc = "off"
    /\ rName = <<>>
    /\ rData = NoData

(***************************************************************************)
(* DocumentAnalyzerService and its worker (documentAnalyzer.ts,            *)
(* pyodideWorker.ts 5-163).  The main thread runs one task at a time: a    *)
(* message event, an error event or a timer callback is dispatched only    *)
(* when no analyzeDocuments call waits at its `await` (microtasks run      *)
(* first).  The worker runs in parallel; its onmessage invocations          *)
(* interleave at their awaits.                                             *)
(***************************************************************************)
Calls == 1..MaxCalls

\* The exam code of every call.
ExamCode == <<"E","X","0","1">>

\* A ProcessedFile as the caller hands it to analyzeDocuments; detectedType
\* and newName are not set yet (the empty text here).
Pending(id, name) ==
    [id |-> id, originalName |-> name, detectedType |-> <<>>, newName |-> <<>>,
     status |-> "pending"]

\* The batches a call may pass.
Batches ==
    { << Pending(1, <<"p","h","o","t","o",".","j","p","g">>),
         Pending(2, <<"m","a","r","k","s","h","e","e","t",".","p","d","f">>) >>,
      << Pending(2, <<"m","a","r","k","s","h","e","e","t",".","p","d","f">>) >>,
      << Pending(3, <<"m","y","\"","s","i","g","n",".","p","n","g">>) >> }

NoPromise == [state |-> "none", reason |-> "", value |-> <<>>]

NoInstance == [packages |-> FALSE, analyzer |-> FALSE]

\* documentAnalyzer.ts 61: files.map(f => ({ id: f.id, name: f.originalName })).
RequestFiles(files) == [k \in 1..Len(files) |-> [id |-> files[k].id, name |-> files[k].originalName]]

\* data.find((r) => r.id === file.id): the index of the first entry with
\* that id, 0 when there is none.
FindById(data, id) ==
    IF \E k \in 1..Len(data) : data[k].id = id
    THEN CHOOSE k \in 1..Len(data) :
            /\ data[k].id = id
            /\ \A j \in 1..(k - 1) : data[j].id # id
    ELSE 0

\* documentAnalyzer.ts 37-48: files.map(file => ...).
UpdatedFiles(files, data) ==
    [k \in 1..Len(files) |->
        LET found == FindById(data, files[k].id)
        IN  IF found # 0
            THEN [files[k] EXCEPT !.detectedType = data[found].detectedType,
                                  !.newName = data[found].newName,
                                  !.status = "completed"]
            ELSE files[k]]

\* The log entry of a response of the given type for request k reaching the
\* main thread: in time, or after the timer of the request has fired.
Arrival(k, type) ==
    IF timer[k] = "fired" THEN [type |-> type, when |-> "late"]
    ELSE [type |-> type, when |-> "in time"]

NoArrival == [type |-> "none", when |-> "never"]

\* resolve(value) that settles a settled promise again.
Resolved_Again(p, k, value) ==
    [p EXCEPT ![k] = [state |-> "resolved", reason |-> "", value |-> value]]

\* resolve(value) / reject(reason) of the promise of call k: a promise
\* settles once, later calls change nothing.
Resolved(p, k, value) ==
    IF p[k].state = "pending"
    THEN [p EXCEPT ![k] = [state |-> "resolved", reason |-> "", value |-> value]]
    ELSE p

Rejected(p, k, reason) ==
    IF p[k].state = "pending"
    THEN [p EXCEPT ![k] = [state |-> "rejected", reason |-> reason, value |-> <<>>]]
    ELSE p

\* clearTimeout(timeout) of call k.
Cleared(t, k) == IF t[k] = "armed" THEN [t EXCEPT ![k] = "cleared"] ELSE t

\* No call waits at `await this.initialize()`: the main thread may take its
\* next task.
NoMicrotask == \A k \in Calls : promise[k].state # "await"

\* documentAnalyzer.ts 20-65: the executor of the promise of call k.
Executor(k) ==
    IF worker = 0
    THEN /\ promise' = [promise EXCEPT ![k] =
                           [state |-> "rejected", reason |-> "Worker not initialized",
                            value |-> <<>>]]
         /\ UNCHANGED <<timer, handler, inbox, wpc, posted>>
    ELSE /\ promise' = [promise EXCEPT ![k] = [state |-> "pending", reason |-> "", value |-> <<>>]]
         /\ timer' = [timer EXCEPT ![k] = "armed"]
         /\ handler' = k
         /\ inbox' = Append(inbox, k)
         /\ wpc' = [wpc EXCEPT ![k] = "queued"]
         /\ posted' = Append(posted, [call |-> k, worker |-> worker,
                                      terminated |-> terminated])

\* analyzeDocuments(files, examCode) is called.  With a worker the executor
\* runs at once; without one initialize() constructs it and the call waits
\* at its await.
AnalyzeDocuments(files) ==
    /\ UNCHANGED outsideChannel
    /\ nCalls < MaxCalls
    /\ worker # 0 \/ workersCreated < MaxWorkers
    /\ nCalls' = nCalls + 1
    /\ callFiles' = [callFiles EXCEPT ![nCalls + 1] = files]
    /\ IF worker # 0
       THEN /\ Executor(nCalls + 1)
            /\ UNCHANGED <<worker, workersCreated, script, errorEvent, pyodide,
                           instances, outbox>>
       ELSE /\ worker' = workersCreated + 1
            /\ workersCreated' = workersCreated + 1
            /\ script' = "loading"
            /\ promise' = [promise EXCEPT ![nCalls + 1].state = "await"]
            /\ UNCHANGED <<timer, handler, inbox, wpc, posted, errorEvent, pyodide,
                           instances, outbox>>
    /\ UNCHANGED <<answered, handled>>
    /\ UNCHANGED <<terminated, settledBy, classified>>

\* The call that waited at `await this.initialize()` goes on (in call order).
Resume(k) ==
    /\ UNCHANGED outsideChannel
    /\ promise[k].state = "await"
    /\ \A j \in 1..(k - 1) : promise[j].state # "await"
    /\ Executor(k)
    /\ UNCHANGED <<worker, workersCreated, nCalls, callFiles, script, errorEvent,
                   pyodide, instances, outbox, answered, handled>>
    /\ UNCHANGED <<terminated, settledBy, classified>>

\* A terminate() that stops the worker and keeps the reference to it.
Terminate_KeepReference ==
    /\ UNCHANGED outsideChannel
    /\ worker # 0
    /\ worker \notin terminated
    /\ terminated' = terminated \cup {worker}
    /\ script' = "none"
    /\ errorEvent' = FALSE
    /\ inbox' = <<>>
    /\ outbox' = <<>>
    /\ pyodide' = 0
    /\ instances' = [k \in Calls |-> NoInstance]
    /\ wpc' = [k \in Calls |-> IF wpc[k] \in {"queued", "loadPyodide", "loadPackage"}
                               THEN "dead" ELSE wpc[k]]
    /\ UNCHANGED <<worker, handler, workersCreated, nCalls, callFiles, promise, timer,
                   posted, answered, handled, settledBy, classified>>

\* terminate(): the worker stops; nothing it holds is delivered any more.
Terminate ==
    /\ UNCHANGED outsideChannel
    /\ worker # 0
    /\ worker' = 0
    /\ script' = "none"
    /\ errorEvent' = FALSE
    /\ handler' = 0
    /\ inbox' = <<>>
    /\ outbox' = <<>>
    /\ pyodide' = 0
    /\ instances' = [k \in Calls |-> NoInstance]
    /\ wpc' = [k \in Calls |-> IF wpc[k] \in {"queued", "loadPyodide", "loadPackage"}
                               THEN "dead" ELSE wpc[k]]
    /\ UNCHANGED <<workersCreated, nCalls, callFiles, promise, timer, posted, answered,
                   handled>>
    /\ terminated' = terminated \cup {worker}
    /\ UNCHANGED <<settledBy, classified>>

\* A timer whose callback rejects nothing.
Timeout_NoReject(k) ==
    /\ UNCHANGED outsideChannel
    /\ NoMicrotask
    /\ timer[k] = "armed"
    /\ \A j \in 1..(k - 1) : timer[j] # "armed"
    /\ timer' = [timer EXCEPT ![k] = "fired"]
    /\ UNCHANGED <<worker, workersCreated, handler, nCalls, callFiles, script,
                   errorEvent, inbox, wpc, pyodide, instances, outbox, posted,
                   answered, handled, promise, terminated, settledBy, classified>>

\* The timer of call k fires (documentAnalyzer.ts 26-28).  Timers run for the
\* same 30 seconds, so they fire in the order they were set.
Timeout(k) ==
    /\ UNCHANGED outsideChannel
    /\ NoMicrotask
    /\ timer[k] = "armed"
    /\ \A j \in 1..(k - 1) : timer[j] # "armed"
    /\ timer' = [timer EXCEPT ![k] = "fired"]
    /\ promise' = Rejected(promise, k, "Document analysis timeout")
    /\ UNCHANGED <<worker, workersCreated, handler, nCalls, callFiles, script,
                   errorEvent, inbox, wpc, pyodide, instances, outbox, posted,
                   answered, handled>>
    /\ UNCHANGED <<terminated, settledBy, classified>>

\* worker.onmessage (documentAnalyzer.ts 30-51): the oldest message of the
\* worker is dispatched to the closure the worker object holds now.
OnMessage ==
    /\ UNCHANGED outsideChannel
    /\ NoMicrotask
    /\ worker # 0
    /\ outbox # <<>>
    /\ handler # 0
    /\ LET e == Head(outbox)
       IN  /\ timer' = Cleared(timer, handler)
           /\ promise' =
                 IF e.type = "error" THEN Rejected(promise, handler, "worker error")
                 ELSE Resolved(promise, handler, UpdatedFiles(callFiles[handler], e.data))
           /\ answered' = [answered EXCEPT ![e.request] = Arrival(e.request, e.type)]
           /\ handled' = [handled EXCEPT ![handler] = @ + 1]
    /\ outbox' = Tail(outbox)
    /\ UNCHANGED <<worker, workersCreated, handler, nCalls, callFiles, script,
                   errorEvent, inbox, wpc, pyodide, instances, posted>>
    /\ settledBy' = IF promise[handler].state = "pending"
                    THEN [settledBy EXCEPT ![handler] = Head(outbox).request]
                    ELSE settledBy
    /\ UNCHANGED <<terminated, classified>>

\* worker.onerror (documentAnalyzer.ts 53-56): the error event of the worker
\* is dispatched to the closure the worker object holds now.
OnError ==
    /\ UNCHANGED outsideChannel
    /\ NoMicrotask
    /\ worker # 0
    /\ errorEvent
    /\ handler # 0
    /\ errorEvent' = FALSE
    /\ timer' = Cleared(timer, handler)
    /\ promise' = Rejected(promise, handler, "worker error event")
    /\ answered' = [answered EXCEPT ![handler] = Arrival(handler, "error")]
    /\ UNCHANGED <<worker, workersCreated, handler, nCalls, callFiles, script, inbox,
                   wpc, pyodide, instances, outbox, posted, handled>>
    /\ UNCHANGED <<terminated, settledBy, classified>>

\* The worker's script is fetched and evaluated, or fails to: the failure
\* is an error event on the Worker object.
ScriptLoaded(ok) ==
    /\ UNCHANGED outsideChannel
    /\ worker # 0
    /\ script = "loading"
    /\ script' = IF ok THEN "running" ELSE "failed"
    /\ errorEvent' = ~ok
    /\ UNCHANGED <<worker, workersCreated, handler, nCalls, callFiles, promise, timer,
                   inbox, wpc, pyodide, instances, outbox, posted, answered, handled>>
    /\ UNCHANGED <<terminated, settledBy, classified>>

\* Whether an interpreter has its packages and the analyzer object.
Readiness(instance) ==
    IF instance.packages /\ instance.analyzer THEN "initialized" ELSE "uninitialized"

\* pyodideWorker.ts 127-161 for request k, run on the interpreter the global
\* `pyodide` names, whose state is inst: the message posted back.
Response(k, inst) ==
    LET looped == AnalyzeLoop(RequestFiles(callFiles[k]), ExamCode, 0, <<>>)
    IN  IF inst[pyodide].analyzer /\ looped.status = "ok"
        THEN [type |-> "result", request |-> k, data |-> looped.data]
        ELSE [type |-> "error", request |-> k, data |-> <<>>]

ErrorResponse(k) == [type |-> "error", request |-> k, data |-> <<>>]

\* self.onmessage starts for the oldest request (pyodideWorker.ts 5-9): with
\* `pyodide` null it awaits the import and loadPyodide, else it goes
\* straight to the analyze branch.
WorkerReceive ==
    /\ UNCHANGED outsideChannel
    /\ script = "running"
    /\ inbox # <<>>
    /\ inbox' = Tail(inbox)
    /\ IF pyodide = 0
       THEN /\ wpc' = [wpc EXCEPT ![Head(inbox)] = "loadPyodide"]
            /\ UNCHANGED outbox
       ELSE /\ wpc' = [wpc EXCEPT ![Head(inbox)] = "done"]
            /\ outbox' = Append(outbox, Response(Head(inbox), instances))
    /\ UNCHANGED <<worker, workersCreated, handler, nCalls, callFiles, promise, timer,
                   script, errorEvent, pyodide, instances, posted, answered, handled>>
    /\ classified' = IF pyodide = 0 THEN classified
                     ELSE [classified EXCEPT ![Head(inbox)] = Readiness(instances[pyodide])]
    /\ UNCHANGED <<terminated, settledBy>>

\* `pyodide = await loadPyodide(...)` settles in the invocation for request
\* k (pyodideWorker.ts 11-17): the global is assigned and loadPackage is
\* called on the new interpreter, or the catch posts the error.
LoadPyodideDone(k, ok) ==
    /\ UNCHANGED outsideChannel
    /\ wpc[k] = "loadPyodide"
    /\ IF ok
       THEN /\ pyodide' = k
            /\ wpc' = [wpc EXCEPT ![k] = "loadPackage"]
            /\ UNCHANGED outbox
       ELSE /\ wpc' = [wpc EXCEPT ![k] = "done"]
            /\ outbox' = Append(outbox, ErrorResponse(k))
            /\ UNCHANGED pyodide
    /\ UNCHANGED <<worker, workersCreated, handler, nCalls, callFiles, promise, timer,
                   script, errorEvent, inbox, instances, posted, answered, handled>>
    /\ UNCHANGED <<terminated, settledBy, classified>>

\* `await pyodide.loadPackage(...)` settles in the invocation for request k
\* (pyodideWorker.ts 17-156): the packages are in interpreter k; the class
\* source runs on the interpreter `pyodide` names now, where its imports
\* need the packages; then the analyze branch runs.  A failure anywhere
\* posts the error.
LoadPackageDone(k, ok) ==
    /\ UNCHANGED outsideChannel
    /\ wpc[k] = "loadPackage"
    /\ wpc' = [wpc EXCEPT ![k] = "done"]
    /\ IF ok
       THEN LET loaded == [instances EXCEPT ![k].packages = TRUE]
                defined == [loaded EXCEPT ![pyodide].analyzer = TRUE]
            IN  IF loaded[pyodide].packages
                THEN /\ instances' = defined
                     /\ outbox' = Append(outbox, Response(k, defined))
                ELSE /\ instances' = loaded
                     /\ outbox' = Append(outbox, ErrorResponse(k))
       ELSE /\ outbox' = Append(outbox, ErrorResponse(k))
            /\ UNCHANGED instances
    /\ UNCHANGED <<worker, workersCreated, handler, nCalls, callFiles, promise, timer,
                   script, errorEvent, inbox, pyodide, posted, answered, handled>>
    /\ classified' = IF ok /\ (pyodide = k \/ instances[pyodide].packages)
                     THEN [classified EXCEPT ![k] = "initialized"]
                     ELSE classified
    /\ UNCHANGED <<terminated, settledBy>>

ChannelOff ==
    /\ worker = 0
    /\ workersCreated = 0
    /\ handler = 0
    /\ nCalls = 0
    /\ callFiles = [k \in Calls |-> <<>>]
    /\ promise = [k \in Calls |-> NoPromise]
    /\ timer = [k \in Calls |-> "none"]
    /\ script = "none"
    /\ errorEvent = FALSE
    /\ inbox = <<>>
    /\ wpc = [k \in Calls |-> "none"]
    /\ pyodide = 0
    /\ instances = [k \in Calls |-> NoInstance]
    /\ outbox = <<>>
    /\ posted = <<>>
    /\ answered = [k \in Calls |-> NoArrival]
    /\ handled = [k \in Calls |-> 0]
    /\ terminated = {}
    /\ settledBy = [k \in Calls |-> 0]
    /\ classified = [k \in Calls |-> "no"]

(***************************************************************************)
(* RustFormatterService (src/Dockerfile, 103-220).                         *)
(* A ProcessedFile is a record; an optional field that is not set holds    *)
(* Absent.  `file` is the File handle, read by arrayBuffer().              *)
(***************************************************************************)
Absent == "<absent>"

\* The formattedFile field of a record that has none.
NoBlob ==
    [present |-> FALSE,
     data |-> [fn |-> "none", data |-> <<>>, type |-> "", config |-> "none"],
     type |-> ""]

\* The category formats an ExamConfig may carry; "WEBP" is not one of the
\* formats the switch of getOutputMimeType names.
Configs ==
    { [name |-> "A", photo |-> "JPEG", signature |-> "PNG", documents |-> "PDF"],
      [name |-> "B", photo |-> "WEBP", signature |-> "JPEG", documents |-> "PNG"] }

\* No ExamConfig: before the first call, before the first set_config.
NoConfig == [name |-> "none", photo |-> "none", signature |-> "none", documents |-> "none"]

\* The document types of the files of a batch, by position (repeating).
BatchTypes == <<"photo", "signature", "marksheet">>

TypeAt(k) == BatchTypes[((k - 1) % Len(BatchTypes)) + 1]

\* The array the caller holds before formatting: n classified files.
Batch(n) ==
    [k \in 1..n |->
        [id |-> k, file |-> <<"bytes", k>>, detectedType |-> TypeAt(k),
         status |-> "completed", progress |-> 0, error |-> Absent,
         formattedFile |-> NoBlob]]

\* What a failing format_document throws: an Error with its message, or a
\* value that is not an Error (wasm-bindgen throws the JsValue of an Err as
\* it is).
Thrown ==
    { [isError |-> TRUE, message |-> "conversion failed"],
      [isError |-> FALSE, message |-> Absent] }

\* What a failing file.file.arrayBuffer() rejects with: a DOMException.
ReadError == [isError |-> TRUE, message |-> "The file could not be read"]

\* A variant that reports the progress reached after file i.
LoopProgress_AfterFile(i, total) == [num |-> (i + 1) * 100, den |-> total]

\* Dockerfile 140: onProgress((i / total) * 100), kept as an exact fraction.
LoopProgress(i, total) == [num |-> i * 100, den |-> total]

\* Dockerfile 177: onProgress(100).
FinalProgress == [num |-> 100, den |-> 1]

\* this.formatter.format_document(uint8Array, detectedType, originalName):
\* the engine is deterministic, its output a function of its input and of
\* the configuration it was given by set_config.
format_document(bytes, detectedType) ==
    [fn |-> "format_document", data |-> bytes, type |-> detectedType,
     config |-> engineConfig.name]

\* getOutputMimeType whose switch has no default branch.
getOutputMimeType_NoDefault(documentType, examConfig) ==
    LET format == IF documentType = "photo" THEN examConfig.photo
                  ELSE IF documentType = "signature" THEN examConfig.signature
                  ELSE examConfig.documents
    IN  CASE format = "JPEG" -> "image/jpeg"
          [] format = "PNG" -> "image/png"
          [] format = "PDF" -> "application/pdf"
          [] OTHER -> "undefined"

getOutputMimeType(documentType, examConfig) ==
    LET format == IF documentType = "photo" THEN examConfig.photo
                  ELSE IF documentType = "signature" THEN examConfig.signature
                  ELSE examConfig.documents
    IN  CASE format = "JPEG" -> "image/jpeg"
          [] format = "PNG" -> "image/png"
          [] format = "PDF" -> "application/pdf"
          [] OTHER -> "image/jpeg"

\* The documentType arguments of the mime selection: detected types, and
\* Absent for a record that was never classified.
MimeDocumentTypes ==
    {"photo", "signature", "marksheet", "aadhaar", "certificate", "document", Absent}

\* The format strings a category may carry: the three the switch names and
\* three it does not.
Formats == {"JPEG", "PNG", "PDF", "WEBP", "jpeg", ""}

MimeConfigs ==
    { [name |-> "M", photo |-> p, signature |-> g, documents |-> d] :
          p \in Formats, g \in Formats, d \in Formats }

InitMime ==
    /\ mType \in MimeDocumentTypes
    /\ mConfig \in MimeConfigs
    /\ mPc = "input"
    /\ mMime = ""

\* this.getOutputMimeType(file.detectedType, examConfig) (Dockerfile 156).
SelectMime ==
    /\ mPc = "input"
    /\ mMime' = getOutputMimeType(mType, mConfig)
    /\ mPc' = "done"
    /\ UNCHANGED <<mType, mConfig>>
    /\ UNCHANGED outsideMime

MimeOff ==
    /\ mType = ""
    /\ mConfig = NoConfig
    /\ mPc = "off"
    /\ mMime = ""

\* A variant that converts the earlier output of a record that has one.
CompletedRecord_FromEarlierOutput(file, examConfig) ==
    [file EXCEPT !.status = "completed",
                 !.progress = 100,
                 !.formattedFile =
                     [present |-> TRUE,
                      data |-> format_document(IF file.formattedFile.present
                                               THEN file.formattedFile.data.data
                                                        \o <<"converted">>
                                               ELSE file.file,
                                               file.detectedType),
                      type |-> getOutputMimeType(file.detectedType, examConfig)]]

\* Dockerfile 155-164: the record pushed after a successful conversion.
CompletedRecord(file, examConfig) ==
    [file EXCEPT !.status = "completed",
                 !.progress = 100,
                 !.formattedFile =
                     [present |-> TRUE,
                      data |-> format_document(file.file, file.detectedType),
                      type |-> getOutputMimeType(file.detectedType, examConfig)]]

\* A variant that reads error.message without the instanceof test.
ErrorMessage_NoInstanceTest(error) == error.message

\* Dockerfile 171: error instanceof Error ? error.message : 'Unknown error'.
ErrorMessage(error) == IF error.isError THEN error.message ELSE "Unknown error"

\* Dockerfile 166-172: the record pushed by the catch block.
ErrorRecord(file, error) ==
    [file EXCEPT !.status = "error", !.error = ErrorMessage(error)]

\* An entry of the log: the operation, the config it was given (by name)
\* and the position in the batch of the file it was given.
Logged(op, config, position) == [op |-> op, config |-> config, file |-> position]

\* A variant that configures the engine only while it has no configuration.
StartLoop_ConfigureOnce(examConfig, log) ==
    /\ engineConfig' = IF engineConfig = NoConfig THEN examConfig ELSE engineConfig
    /\ engineLog' = IF engineConfig = NoConfig
                    THEN Append(log, Logged("set_config", examConfig.name, 0))
                    ELSE log
    /\ formattedFiles' = <<>>
    /\ loopIndex' = 0
    /\ fPc' = "loop"

\* Dockerfile 128-132: set_config, then the loop starts; log is the log so
\* far.
StartLoop(examConfig, log) ==
    /\ engineConfig' = examConfig
    /\ engineLog' = Append(log, Logged("set_config", examConfig.name, 0))
    /\ formattedFiles' = <<>>
    /\ loopIndex' = 0
    /\ fPc' = "loop"

\* formatDocuments(records, examConfig, onProgress) is called.
FormatDocuments(examConfig, withProgress) ==
    /\ UNCHANGED outsideFormat
    /\ fPc \in {"idle", "resolved", "rejected"}
    /\ \/ fCalls = 0
       \/ fCalls < MaxFormatCalls /\ Len(records) <= MaxReformatFiles
    /\ fCalls' = fCalls + 1
    /\ fFiles' = records
    /\ fConfig' = examConfig
    /\ fOnProgress' = withProgress
    /\ progressCalls' = <<>>
    /\ outcomes' = <<>>
    /\ IF formatter
       THEN /\ StartLoop(examConfig,
                         Append(engineLog, Logged("formatDocuments", examConfig.name, 0)))
            /\ UNCHANGED formatter
       ELSE /\ fPc' = "initialize"
            /\ engineLog' = Append(engineLog, Logged("formatDocuments", examConfig.name, 0))
            /\ formattedFiles' = <<>>
            /\ loopIndex' = 0
            /\ UNCHANGED <<formatter, engineConfig>>
    /\ UNCHANGED records

\* await this.initialize() settles: the module loaded and the formatter was
\* created, or the import failed and formatDocuments rejects.
InitializeDone(loaded) ==
    /\ UNCHANGED outsideFormat
    /\ fPc = "initialize"
    /\ IF loaded
       THEN /\ formatter' = TRUE
            /\ StartLoop(fConfig, Append(engineLog, Logged("new DocumentFormatter", "", 0)))
            /\ UNCHANGED <<fConfig>>
       ELSE /\ fPc' = "rejected"
            /\ UNCHANGED <<formatter, engineConfig, engineLog, formattedFiles,
                           loopIndex, fConfig>>
    /\ UNCHANGED <<records, fFiles, fOnProgress, progressCalls, outcomes, fCalls>>

\* Loop top for file i (Dockerfile 134-144): the progress callback, then
\* the call of file.file.arrayBuffer().
BeginFile ==
    /\ UNCHANGED outsideFormat
    /\ fPc = "loop"
    /\ loopIndex < Len(fFiles)
    /\ progressCalls' = IF fOnProgress
                        THEN Append(progressCalls, LoopProgress(loopIndex, Len(fFiles)))
                        ELSE progressCalls
    /\ fPc' = "read"
    /\ UNCHANGED <<formatter, engineConfig, engineLog, records, fFiles, fConfig,
                   fOnProgress, loopIndex, formattedFiles, outcomes, fCalls>>

\* arrayBuffer() settles: the bytes are handed to format_document, or the
\* rejection is caught and the error record pushed.
ReadDone(ok) ==
    /\ UNCHANGED outsideFormat
    /\ fPc = "read"
    /\ IF ok
       THEN /\ engineLog' = Append(engineLog,
                                Logged("format_document", engineConfig.name, loopIndex + 1))
            /\ fPc' = "convert"
            /\ UNCHANGED <<formattedFiles, loopIndex, outcomes>>
       ELSE /\ formattedFiles' = Append(formattedFiles,
                                        ErrorRecord(fFiles[loopIndex + 1], ReadError))
            /\ outcomes' = Append(outcomes, "failed")
            /\ loopIndex' = loopIndex + 1
            /\ fPc' = "loop"
            /\ UNCHANGED engineLog
    /\ UNCHANGED <<formatter, engineConfig, records, fFiles, fConfig, fOnProgress,
                   progressCalls, fCalls>>

\* A variant that converts a record once more after its conversion failed.
ConvertDone_Retry(ok, error) ==
    /\ UNCHANGED outsideFormat
    /\ fPc = "convert"
    /\ LET settled == Append(engineLog,
                             Logged("format_document settled", engineConfig.name,
                                    loopIndex + 1))
           retried == /\ Len(engineLog) >= 2
                      /\ engineLog[Len(engineLog) - 1] =
                            Logged("format_document settled", engineConfig.name,
                                   loopIndex + 1)
       IN  IF ~ok /\ ~retried
           THEN /\ engineLog' = Append(settled,
                                       Logged("format_document", engineConfig.name,
                                              loopIndex + 1))
                /\ UNCHANGED <<formattedFiles, outcomes, loopIndex, fPc>>
           ELSE /\ engineLog' = settled
                /\ formattedFiles' =
                      Append(formattedFiles,
                             IF ok THEN CompletedRecord(fFiles[loopIndex + 1], fConfig)
                             ELSE ErrorRecord(fFiles[loopIndex + 1], error))
                /\ outcomes' = Append(outcomes, IF ok THEN "succeeded" ELSE "failed")
                /\ loopIndex' = loopIndex + 1
                /\ fPc' = "loop"
    /\ UNCHANGED <<formatter, engineConfig, records, fFiles, fConfig,
                   fOnProgress, progressCalls, fCalls>>

\* format_document settles: the completed record is pushed, or the thrown
\* value is caught and the error record pushed; then i++.
ConvertDone(ok, error) ==
    /\ UNCHANGED outsideFormat
    /\ fPc = "convert"
    /\ engineLog' = Append(engineLog,
                          Logged("format_document settled", engineConfig.name, loopIndex + 1))
    /\ formattedFiles' =
          Append(formattedFiles,
                 IF ok THEN CompletedRecord(fFiles[loopIndex + 1], fConfig)
                 ELSE ErrorRecord(fFiles[loopIndex + 1], error))
    /\ outcomes' = Append(outcomes, IF ok THEN "succeeded" ELSE "failed")
    /\ loopIndex' = loopIndex + 1
    /\ fPc' = "loop"
    /\ UNCHANGED <<formatter, engineConfig, records, fFiles, fConfig,
                   fOnProgress, progressCalls, fCalls>>

\* After the loop (Dockerfile 176-180): onProgress(100), return formattedFiles.
\* The caller keeps the returned array.
FinishFormat ==
    /\ UNCHANGED outsideFormat
    /\ fPc = "loop"
    /\ loopIndex = Len(fFiles)
    /\ progressCalls' = IF fOnProgress THEN Append(progressCalls, FinalProgress)
                        ELSE progressCalls
    /\ records' = formattedFiles
    /\ fPc' = "resolved"
    /\ UNCHANGED <<formatter, engineConfig, engineLog, fFiles, fConfig, fOnProgress,
                   loopIndex, formattedFiles, outcomes, fCalls>>

FormatOff ==
    /\ formatter = FALSE
    /\ engineConfig = NoConfig
    /\ engineLog = <<>>
    /\ records = <<>>
    /\ fPc = "off"
    /\ fFiles = <<>>
    /\ fConfig = NoConfig
    /\ fOnProgress = FALSE
    /\ loopIndex = 0
    /\ formattedFiles = <<>>
    /\ progressCalls = <<>>
    /\ outcomes = <<>>
    /\ fCalls = 0

ClassifyOff ==
    /\ cName = <<>>
    /\ cPc = "off"
    /\ cDirect = ""
    /\ cWorker = NoResult

InitFormat ==
    /\ formatter = FALSE
    /\ engineConfig = NoConfig
    /\ engineLog = <<>>
    /\ records \in {Batch(n) : n \in 0..MaxFiles}
    /\ fPc = "idle"
    /\ fFiles = <<>>
    /\ fConfig = NoConfig
    /\ fOnProgress = FALSE
    /\ loopIndex = 0
    /\ formattedFiles = <<>>
    /\ progressCalls = <<>>
    /\ outcomes = <<>>
    /\ fCalls = 0

NextFormat ==
    \/ \E examConfig \in Configs, withProgress \in BOOLEAN :
          FormatDocuments(examConfig, withProgress)
    \/ \E loaded \in BOOLEAN : InitializeDone(loaded)
    \/ BeginFile
    \/ \E ok \in BOOLEAN : ReadDone(ok)
    \/ \E ok \in BOOLEAN, error \in Thrown : ConvertDone(ok, error)
    \/ FinishFormat

InitFormatOnly == InitFormat /\ ClassifyOff /\ ChannelOff /\ RenameOff /\ MimeOff

SpecFormat == InitFormatOnly /\ [][NextFormat]_vars

NextClassify == Classify \/ WorkerClassify

InitClassifyOnly == InitClassify /\ FormatOff /\ ChannelOff /\ RenameOff /\ MimeOff

NextRename == Rename \/ RenameRequest

InitRenameOnly == InitRename /\ ClassifyOff /\ FormatOff /\ ChannelOff /\ MimeOff

NextMime == SelectMime

InitMimeOnly == InitMime /\ ClassifyOff /\ FormatOff /\ ChannelOff /\ RenameOff

SpecMime == InitMimeOnly /\ [][NextMime]_vars

SpecRename == InitRenameOnly /\ [][NextRename]_vars

\* The service after construction: this.worker = null.
Init == ChannelOff /\ ClassifyOff /\ FormatOff /\ RenameOff /\ MimeOff

Next ==
    \/ \E files \in Batches : AnalyzeDocuments(files)
    \/ \E k \in Calls : Resume(k)
    \/ Terminate
    \/ \E k \in Calls : Timeout(k)
    \/ OnMessage
    \/ OnError
    \/ \E ok \in BOOLEAN : ScriptLoaded(ok)
    \/ WorkerReceive
    \/ \E k \in Calls, ok \in BOOLEAN : LoadPyodideDone(k, ok)
    \/ \E k \in Calls, ok \in BOOLEAN : LoadPackageDone(k, ok)

Spec == Init /\ [][Next]_vars

\* The main thread runs the continuation of an awaiting call and the
\* callback of a timer whose delay has passed.
Fairness ==
    /\ \A k \in Calls : WF_vars(Resume(k))
    /\ \A k \in Calls : WF_vars(Timeout(k))

SpecLive == Init /\ [][Next]_vars /\ Fairness

SpecClassify == InitClassifyOnly /\ [][NextClassify]_vars

(***************************************************************************)
(* Properties of formatDocuments.                                          *)
(***************************************************************************)
\* The numeric value of an onProgress argument equals the integer n.
ProgressEquals(v, n) == v.num = n * v.den

\* C4: formatDocuments isolates conversion failures per file.  A call that
\* reached its loop is never rejected; when it resolves, the array has one
\* record per input record, with the input's ids in the input's order; a
\* record is 'completed' and carries the payload of its conversion exactly
\* when its conversion succeeded, and is 'error' with a non-empty message
\* exactly when its conversion (reading the file, or format_document) failed.
FormatIsolatesFailures ==
    /\ fPc = "rejected" => outcomes = <<>>
    /\ fPc = "resolved" =>
          /\ Len(records) = Len(fFiles)
          /\ Len(outcomes) = Len(fFiles)
          /\ \A k \in 1..Len(fFiles) :
                /\ records[k].id = fFiles[k].id
                /\ records[k].status \in {"completed", "error"}
                /\ records[k].status = "completed" <=> outcomes[k] = "succeeded"
                /\ records[k].status = "error" <=> outcomes[k] = "failed"
                /\ outcomes[k] = "succeeded" =>
                      /\ records[k].formattedFile.present
                      /\ records[k].formattedFile.data =
                            format_document(fFiles[k].file, fFiles[k].detectedType)
                /\ outcomes[k] = "failed" => records[k].error \notin {Absent, ""}

\* C4 witness: a resolved batch of three files, one failed on a thrown
\* value that is no Error, one failed otherwise, one converted.
FormatMixedBatchResolved ==
    /\ fPc = "resolved"
    /\ Len(fFiles) = 3
    /\ \E j, k, l \in 1..3 :
          /\ outcomes[j] = "failed" /\ records[j].error = "Unknown error"
          /\ outcomes[k] = "failed" /\ records[k].error # "Unknown error"
          /\ outcomes[l] = "succeeded"

\* The number of onProgress calls, among the first n, whose argument is 100.
RECURSIVE HundredCalls(_)
HundredCalls(n) ==
    IF n = 0 THEN 0
    ELSE HundredCalls(n - 1) + (IF ProgressEquals(progressCalls[n], 100) THEN 1 ELSE 0)

\* C5: with an onProgress callback and a non-empty batch, onProgress(100) is
\* called exactly once, as the last onProgress call of the batch, whatever
\* conversions failed: no call before the end of the loop passes 100, and
\* the resolved call has made exactly one such call, its last.
ProgressHundredOnceAtEnd ==
    (fOnProgress /\ Len(fFiles) >= 1) =>
        /\ fPc \in {"loop", "read", "convert"} => HundredCalls(Len(progressCalls)) = 0
        /\ fPc = "resolved" =>
              /\ HundredCalls(Len(progressCalls)) = 1
              /\ ProgressEquals(progressCalls[Len(progressCalls)], 100)

\* C5 witness: a resolved batch of several files with a callback, in which
\* a conversion failed.
ProgressReportedDespiteFailure ==
    /\ fPc = "resolved"
    /\ fOnProgress
    /\ Len(fFiles) >= 2
    /\ \E k \in 1..Len(outcomes) : outcomes[k] = "failed"
    /\ Len(progressCalls) = Len(fFiles) + 1

\* C6: the value passed to onProgress before record i (the call number i+1
\* of the batch) is floor(i / total * 100), an integer between 0 and 100.
ProgressIsFloorPercent ==
    \A k \in 1..Len(progressCalls) :
        k <= Len(fFiles) =>
            /\ progressCalls[k].num % progressCalls[k].den = 0
            /\ ProgressEquals(progressCalls[k], ((k - 1) * 100) \div Len(fFiles))

(***************************************************************************)
(* Properties of the classifier.                                           *)
(***************************************************************************)
RuleOrder ==
    <<"aadhaar", "photo", "signature", "marksheet", "certificate",
      "caste_certificate", "income_certificate">>

FallbackOrder == <<"photo", "signature", "marksheet", "certificate", "aadhaar">>

\* Some pattern of the rule of that type matches s.
TypeMatches(type, s) ==
    \E r \in 1..Len(document_patterns) :
        document_patterns[r].type = type /\ RuleMatches(document_patterns[r], s)

\* Some keyword of the fallback group of that type is contained in s.
GroupMatches(type, s) ==
    \E g \in 1..Len(fallback_words) :
        /\ fallback_words[g].type = type
        /\ \E w \in fallback_words[g].words : Contains(s, w)

\* The least element of a non-empty set of numbers.
Least(S) == CHOOSE x \in S : \A y \in S : x <= y

\* The type the rule of C8 gives the lower-cased name s.
FirstByOrder(s) ==
    LET rules == {k \in 1..Len(RuleOrder) : TypeMatches(RuleOrder[k], s)}
        groups == {k \in 1..Len(FallbackOrder) : GroupMatches(FallbackOrder[k], s)}
    IN  IF rules # {} THEN RuleOrder[Least(rules)]
        ELSE IF groups # {} THEN FallbackOrder[Least(groups)]
        ELSE "document"

\* C8: analyze_document_type returns the type of the first rule, in the
\* order aadhaar, photo, signature, marksheet, certificate,
\* caste_certificate, income_certificate, with a pattern matching the
\* lower-cased name; failing that, the type of the first fallback group, in
\* the order photo, signature, marksheet, certificate, aadhaar, with a
\* keyword contained in it; failing that, 'document'.
ClassifyFirstRuleWins ==
    cPc \in {"classified", "done"} => cDirect = FirstByOrder(Lower(cName))

\* C8 witness: a name matching a marksheet pattern and a certificate
\* pattern was classified 'marksheet'.
ClassifiedMarksheetOverCertificate ==
    /\ cPc \in {"classified", "done"}
    /\ TypeMatches("marksheet", Lower(cName))
    /\ TypeMatches("certificate", Lower(cName))
    /\ cDirect = "marksheet"

\* C9: a name matching the pattern caste.*certificate is classified
\* caste_certificate and a name matching income.*certificate is classified
\* income_certificate (every name with a pattern of type T is classified T).
ClassifyReturnsCasteAndIncome ==
    cPc \in {"classified", "done"} =>
        /\ MatchesFrom(Lower(cName), << <<"c","a","s","t","e">>,
                                        <<"c","e","r","t","i","f","i","c","a","t","e">> >>, 1)
              => cDirect = "caste_certificate"
        /\ MatchesFrom(Lower(cName), << <<"i","n","c","o","m","e">>,
                                        <<"c","e","r","t","i","f","i","c","a","t","e">> >>, 1)
              => cDirect = "income_certificate"

DocumentTypes ==
    {"aadhaar", "photo", "signature", "marksheet", "certificate",
     "caste_certificate", "income_certificate", "document"}

\* C10: for every file name the worker's classification step returns a
\* document type and does not raise.
WorkerClassifyNeverRaises ==
    cPc = "done" => cWorker.status = "ok" /\ cWorker.detectedType \in DocumentTypes

\* The entries the worker computes for request k (pyodideWorker.ts 131-150).
OwnData(k) == AnalyzeLoop(RequestFiles(callFiles[k]), ExamCode, 0, <<>>).data

Unsettled(k) == promise[k].state \in {"await", "pending"}

\* C1: a call made while an earlier call of the instance has not settled
\* fails fast and posts nothing, so a call whose request is posted and whose
\* promise is pending never coexists with an unsettled earlier call.
ChannelBusyFailsFast ==
    \A j, k \in Calls :
        (j < k /\ promise[k].state = "pending") => ~Unsettled(j)

\* C2: once the 30 second timer of a call has fired, the promise of the call
\* is rejected with the timeout error and carries no array, and stays so
\* whatever the worker sends afterwards.
TimeoutRejectsForGood ==
    \A k \in Calls :
        timer[k] = "fired" =>
            /\ promise[k].state = "rejected"
            /\ promise[k].reason = "Document analysis timeout"
            /\ promise[k].value = <<>>

\* C2, its case: the timer of a call fired and the 'result' response of the
\* worker for it was dispatched to the onmessage closure of that call
\* afterwards.
LateResponseAfterTimeout ==
    \E k \in Calls :
        /\ timer[k] = "fired"
        /\ handled[k] > 0
        /\ answered[k] = [type |-> "result", when |-> "late"]
        /\ promise[k].state = "rejected"

\* C3: when the 'result' response of a request reaches the main thread in
\* time, the promise of the request is resolved with one record per input
\* record, same ids, same order; a record whose id is in the response
\* carries the detectedType and newName of that entry, a record whose id is
\* not is the input record.
ResultCorrelatedById ==
    \A k \in Calls :
        answered[k] = [type |-> "result", when |-> "in time"] =>
            /\ promise[k].state = "resolved"
            /\ Len(promise[k].value) = Len(callFiles[k])
            /\ \A n \in 1..Len(callFiles[k]) :
                  /\ n \in DOMAIN promise[k].value
                  /\ promise[k].value[n].id = callFiles[k][n].id
                  /\ \A m \in 1..Len(OwnData(k)) :
                        OwnData(k)[m].id = callFiles[k][n].id =>
                            /\ promise[k].value[n].detectedType = OwnData(k)[m].detectedType
                            /\ promise[k].value[n].newName = OwnData(k)[m].newName
                  /\ (\A m \in 1..Len(OwnData(k)) : OwnData(k)[m].id # callFiles[k][n].id)
                        => promise[k].value[n] = callFiles[k][n]

\* C7: a request for which the worker reported a failure (an 'error'
\* message or an error event) never has its promise resolved.
WorkerFailureNeverResolves ==
    \A k \in Calls :
        answered[k].type = "error" => promise[k].state # "resolved"

\* The noun of a type in a generated name: photograph for photo,
\* aadhaar_card for aadhaar, the type's own name for the other known types,
\* document for any other type.
TypeNoun(type) ==
    CASE type = "photo" -> <<"p","h","o","t","o","g","r","a","p","h">>
      [] type = "aadhaar" -> <<"a","a","d","h","a","a","r","_","c","a","r","d">>
      [] type = "signature" -> <<"s","i","g","n","a","t","u","r","e">>
      [] type = "marksheet" -> <<"m","a","r","k","s","h","e","e","t">>
      [] type = "certificate" -> <<"c","e","r","t","i","f","i","c","a","t","e">>
      [] type = "caste_certificate" ->
            <<"c","a","s","t","e","_","c","e","r","t","i","f","i","c","a","t","e">>
      [] type = "income_certificate" ->
            <<"i","n","c","o","m","e","_","c","e","r","t","i","f","i","c","a","t","e">>
      [] OTHER -> <<"d","o","c","u","m","e","n","t">>

\* '{examCode}_{typeNoun}', with '_{index+1}' appended exactly when index > 0.
RenderedName(type, code, index) ==
    code \o <<"_">> \o TypeNoun(type)
         \o (IF index > 0 THEN <<"_">> \o Decimal(index + 1) ELSE <<>>)

\* C11: generate_new_filename returns '{examCode}_{typeNoun}' (document for
\* an unknown type) with '_{index+1}' appended exactly when index > 0, and
\* the index of a file in the worker's loop is its position in the batch,
\* not a count of the files of its type; the three examples of the
\* specification hold.
RenameByTypeAndBatchPosition ==
    /\ rPc \in {"named", "done"} =>
          /\ rName = RenderedName(rType, rCode, rIndex)
          /\ (rType = "photo" /\ rCode = <<"E","X","0","1">> /\ rIndex = 0)
                => rName = <<"E","X","0","1","_","p","h","o","t","o","g","r","a","p","h">>
          /\ (rType = "photo" /\ rCode = <<"E","X","0","1">> /\ rIndex = 1)
                => rName = <<"E","X","0","1","_","p","h","o","t","o","g","r","a","p","h","_","2">>
          /\ (rType = "unknown_type" /\ rCode = <<"E","X","0","1">> /\ rIndex = 0)
                => rName = <<"E","X","0","1","_","d","o","c","u","m","e","n","t">>
    /\ rPc = "done" =>
          /\ rData.status = "ok"
          /\ Len(rData.data) = Len(rFiles)
          /\ \A k \in 1..Len(rFiles) :
                rData.data[k].newName =
                    RenderedName(rData.data[k].detectedType, rCode, k - 1)
                        \o <<".">> \o LastSegment(rFiles[k].name)

\* C11, its case: a request whose second file is its first photo, named with
\* the suffix of the second position, after a call with an index above 0.
RenamedSecondFileFirstPhoto ==
    /\ rPc = "done"
    /\ rIndex > 0
    /\ rType = "unknown_type"
    /\ Len(rFiles) = 2
    /\ rData.status = "ok"
    /\ rData.data[1].detectedType = "signature"
    /\ rData.data[2].detectedType = "photo"
    /\ rData.data[2].newName =
          rCode \o <<"_","p","h","o","t","o","g","r","a","p","h","_","2",".","j","p","g">>

\* The category whose configured format decides the output of a type.
MimeCategory(type) ==
    IF type = "photo" THEN "photo"
    ELSE IF type = "signature" THEN "signature"
    ELSE "documents"

\* C12: the mime type selected for a document type and a config is that of
\* the format of the type's category (photo, signature, documents for every
\* other type): image/jpeg for JPEG, image/png for PNG, application/pdf for
\* PDF, image/jpeg for any other format string; a value is always selected.
MimeSelectionTotal ==
    mPc = "done" =>
        LET format == mConfig[MimeCategory(mType)]
        IN  /\ mMime \in {"image/jpeg", "image/png", "application/pdf"}
            /\ format = "JPEG" => mMime = "image/jpeg"
            /\ format = "PNG" => mMime = "image/png"
            /\ format = "PDF" => mMime = "application/pdf"
            /\ format \notin {"JPEG", "PNG", "PDF"} => mMime = "image/jpeg"

\* C12, its case: a type that is neither photo nor signature with a config
\* whose documents format the switch does not name, the other two formats
\* being named ones.
MimeSelectedForUnrecognizedFormat ==
    /\ mPc = "done"
    /\ mType = "marksheet"
    /\ mConfig.documents = "WEBP"
    /\ mConfig.photo = "PNG"
    /\ mConfig.signature = "PDF"
    /\ mMime = "image/jpeg"

\* C13: when a formatDocuments call over records returned by an earlier call
\* resolves, every record that the earlier call formatted under the same
\* config carries a formatted payload identical to the earlier one.
FormatIdempotent ==
    fPc = "resolved" =>
        \A k \in 1..Len(fFiles) :
            (/\ fFiles[k].formattedFile.present
             /\ fFiles[k].formattedFile.data.config = fConfig.name)
                => /\ k \in DOMAIN records
                   /\ records[k].formattedFile = fFiles[k].formattedFile

\* C13, its case: a record formatted by an earlier call was converted again
\* under the same config by a call that has resolved.
FormattedTwiceSameConfig ==
    /\ fPc = "resolved"
    /\ fCalls = 2
    /\ Len(fFiles) = 1
    /\ fFiles[1].formattedFile.present
    /\ fFiles[1].formattedFile.data.config = fConfig.name
    /\ outcomes = <<"succeeded">>
    /\ records[1].status = "completed"

\* The position in the log of the formatDocuments call that runs or ran last.
CallStart ==
    CHOOSE p \in 1..Len(engineLog) :
        /\ engineLog[p].op = "formatDocuments"
        /\ \A q \in (p + 1)..Len(engineLog) : engineLog[q].op # "formatDocuments"

\* The positions in the log of the given operation within that call.
InCall(op) == { p \in CallStart..Len(engineLog) : engineLog[p].op = op }

\* C16: within one formatDocuments call format_document is called at most
\* once per record and in batch order, and each call of it has settled
\* (resolved or thrown) before the next one is made.
ConversionsSequentialNoRetry ==
    fCalls > 0 =>
        /\ \A p, q \in InCall("format_document") :
              p < q => engineLog[p].file < engineLog[q].file
        /\ \A p \in InCall("format_document") :
              p < Len(engineLog) =>
                  engineLog[p + 1] =
                      Logged("format_document settled", engineLog[p].config,
                             engineLog[p].file)
        /\ Cardinality(InCall("format_document")) <= Len(fFiles)

\* C16, its case: a call over three records has resolved, the engine was
\* called for each of them and the conversion of the first one failed.
ConvertedAfterFailure ==
    /\ fPc = "resolved"
    /\ Len(fFiles) = 3
    /\ outcomes = <<"failed", "succeeded", "succeeded">>
    /\ Cardinality(InCall("format_document")) = 3

\* C17: once a formatDocuments call is past its initialization, set_config
\* has been called exactly once in it, with the config of the call and
\* before its first format_document call, the engine carries that config at
\* every format_document call, and the engine was created at most once on
\* the service, before the first set_config.
ConfiguredOncePerBatch ==
    /\ fPc \in {"loop", "read", "convert", "resolved"} =>
          /\ Cardinality(InCall("set_config")) = 1
          /\ \A p \in InCall("set_config") :
                /\ engineLog[p].config = fConfig.name
                /\ \A q \in InCall("format_document") : p < q
          /\ \A q \in InCall("format_document") : engineLog[q].config = fConfig.name
    /\ fPc \in {"initialize", "rejected"} =>
          InCall("set_config") = {} /\ InCall("format_document") = {}
    /\ Cardinality({ p \in 1..Len(engineLog) :
                        engineLog[p].op = "new DocumentFormatter" }) <= 1
    /\ \A p, q \in 1..Len(engineLog) :
          (engineLog[p].op = "new DocumentFormatter" /\ engineLog[q].op = "set_config")
              => p < q

\* C17, its case: a second call with another config on the initialized
\* service has converted its record.
SecondBatchReconfigured ==
    /\ fPc = "resolved"
    /\ fCalls = 2
    /\ outcomes = <<"succeeded">>
    /\ InCall("new DocumentFormatter") = {}
    /\ \E p \in 1..(CallStart - 1) :
          engineLog[p].op = "set_config" /\ engineLog[p].config # fConfig.name

\* C18: in every record of an array that formatDocuments returned, the
\* error field is present exactly when the status is 'error'.
ErrorPresentIffStatusError ==
    fPc = "resolved" =>
        \A k \in 1..Len(records) :
            (records[k].error # Absent) <=> (records[k].status = "error")

\* The workers that were constructed and not terminated.
LiveWorkers == (1..workersCreated) \ terminated

\* C14: terminate() stops the worker and clears the reference, so a request
\* is never posted to a terminated worker; requests posted with no
\* terminate() between them go to the same worker; at most one worker of
\* the service is live.
WorkerFreshAfterTerminate ==
    /\ \A n \in 1..Len(posted) : posted[n].worker \notin posted[n].terminated
    /\ \A n \in 1..(Len(posted) - 1) :
          posted[n + 1].terminated = posted[n].terminated
              => posted[n + 1].worker = posted[n].worker
    /\ Cardinality(LiveWorkers) <= 1
    /\ LiveWorkers = IF worker = 0 THEN {} ELSE {worker}

\* C14, its case: a request was posted, the worker terminated, and the
\* request of the next call posted to a second worker.
PostedToSecondWorker ==
    /\ Len(posted) = 2
    /\ posted[1].worker = 1
    /\ posted[2].worker = 2
    /\ posted[2].terminated = {1}
    /\ worker = 2

\* C15: the promise of a call is settled by a worker response only if the
\* response was produced for the request of that call.
ResponsesNeverInterleaved ==
    \A k \in Calls : settledBy[k] \in {0, k}

Settled(k) == promise[k].state \in {"resolved", "rejected"}

\* C19: every promise analyzeDocuments returned settles, and a settled
\* promise never changes.
EveryPromiseSettles ==
    /\ \A k \in Calls : Unsettled(k) ~> Settled(k)
    /\ [][\A k \in Calls : Settled(k) => promise'[k] = promise[k]]_vars

\* C19, its case: the worker was terminated while a request was
\* outstanding, and the promise of the request has settled.
SettledAfterTerminate ==
    \E k \in Calls :
        /\ wpc[k] = "dead"
        /\ worker = 0
        /\ promise[k].state = "rejected"
        /\ promise[k].reason = "Document analysis timeout"

\* C20: no request has its classification calls run on an interpreter
\* that lacks its packages or the analyzer object.
ClassifiedOnlyWhenInitialized ==
    \A k \in Calls : classified[k] # "uninitialized"

====
